---- MODULE Spec2Model ----
(***************************************************************************)
(* Mindlink: the streaming completion client (src/src/ai.rs) and the       *)
(* conversation log it reads and writes (src/src/ai_memory.rs).            *)
(*                                                                         *)
(* One step of the model is one synchronous stretch of AiAgent code        *)
(* between two suspension points (an .await) or one SQL statement of       *)
(* Memory.  The transport (reqwest_eventsource / reqwest) and the disk     *)
(* are the environment: every outcome the code has a branch for is drawn   *)
(* with \E.                                                                *)
(*                                                                         *)
(* A behaviour is one run of the program on one log file: Init is the     *)
(* agent as AiAgent::new leaves it, on a log that earlier runs have        *)
(* written, and the run executes one command (a prompt, memory-show or     *)
(* memory-clear).  AiAgent keeps nothing between two calls but the log,    *)
(* so the calls of a chat session are runs from the logs Init ranges over. *)
(*                                                                         *)
(* Texts are sequences of tokens; a token is a pair <<name, n>>.  Stream   *)
(* fragments carry the number of the connection that delivered them, so    *)
(* that a fragment of one attempt is told from a fragment of another.      *)
(* The ts column of the table is written by append and parsed back by      *)
(* last_turns; no operation branches on it and it is left out of the rows. *)
(***************************************************************************)
EXTENDS Integers, Sequences, FiniteSets, TLC

\* ------------------------------------------------------------------ bounds
MaxRetriesCfg == 2      \* AI_MAX_RETRIES ranges over 0..MaxRetriesCfg
MaxWindow     == 2      \* AI_MEMORY_TURNS ranges over 0..MaxWindow
MaxEvents     == 3      \* events one stream delivers before it ends or fails
MaxInitTurns  == 2      \* turns in the log when the run starts
MaxCleared    == 1      \* turns that earlier runs appended and then cleared
WordBits      == 4      \* width of usize/i64 in the cast `limit as i64`
MaxAppends    == 3      \* appends in one behaviour of SpecLog
NumAgents     == 2      \* agents opened on the same database file
MsBits        == 12     \* width of the u64 that holds the backoff milliseconds

\* ------------------------------------------------------------------- texts
Tok(name, n) == <<name, n>>
Text(name)   == << Tok(name, 0) >>
EmptyText    == << >>
Prompts      == { Text("p"), Text("q") }
FallbackText == Text("F")
Letters      == { "a", "b" }

Min(a, b) == IF a < b THEN a ELSE b
Max(a, b) == IF a < b THEN b ELSE a

RECURSIVE Pow2(_)
Pow2(n) == IF n = 0 THEN 1 ELSE 2 * Pow2(n - 1)

\* ------------------------------------------------- ai_memory.rs: the table
VARIABLES
    memory,         \* rows of table `memory`: [id, role, content]
    sqlite_seq      \* AUTOINCREMENT: the largest rowid ever handed out

ChatTurn(id, role, content) == [id |-> id, role |-> role, content |-> content]

MaxRowId(rows) ==
    IF rows = {} THEN 0
    ELSE CHOOSE m \in { r.id : r \in rows } : \A r \in rows : r.id <= m

\* Mutant: a plain INTEGER PRIMARY KEY, which takes one more than the largest
\* rowid now in the table.
InsertIdRowid(rows, seq) == MaxRowId(rows) + 1

\* INSERT INTO memory (role, content, ts): AUTOINCREMENT takes one more than
\* the largest rowid that ever existed in the table.
InsertId(rows, seq) == Max(seq, MaxRowId(rows)) + 1

\* Mutant: an upsert that keeps one turn per role.
InsertOrReplace(rows, seq, role, content) ==
    { r \in rows : r.role # role }
        \cup { ChatTurn(InsertId(rows, seq), role, content) }

Insert(rows, seq, role, content) ==
    rows \cup { ChatTurn(InsertId(rows, seq), role, content) }

\* ORDER BY id DESC
RECURSIVE OrderByIdDesc(_)
OrderByIdDesc(rows) ==
    IF rows = {} THEN << >>
    ELSE LET top == CHOOSE r \in rows : r.id = MaxRowId(rows)
         IN  << top >> \o OrderByIdDesc(rows \ { top })

\* `limit as i64`: a usize with its top bit set becomes negative.
AsI64(n) == IF n >= Pow2(WordBits - 1) THEN n - Pow2(WordBits) ELSE n

\* LIMIT ?: a negative LIMIT means no upper bound in SQLite.
SqlLimit(s, l) == IF l < 0 THEN s ELSE SubSeq(s, 1, Min(l, Len(s)))

RECURSIVE Reverse(_)
Reverse(s) == IF s = << >> THEN << >> ELSE Reverse(Tail(s)) \o << Head(s) >>

\* Mutant: the v.reverse() of last_turns is missing.
LastTurnsUnreversed(rows, limit) ==
    SqlLimit(OrderByIdDesc(rows), AsI64(limit))

\* Memory::last_turns
LastTurns(rows, limit) == Reverse(SqlLimit(OrderByIdDesc(rows), AsI64(limit)))

UsizeValues == 0 .. (Pow2(WordBits) - 1)

\* The logs earlier runs can have left: every exchange appended `user` and
\* then `assistant`, or `user` alone when the second append failed; ids are
\* consecutive, and start after the ids of the turns that were cleared.
RECURSIVE RolePatterns(_)
RolePatterns(n) ==
    IF n = 0 THEN { << >> }
    ELSE { Append(s, "user") : s \in RolePatterns(n - 1) }
         \cup (IF n >= 2
               THEN { s \o << "user", "assistant" >> : s \in RolePatterns(n - 2) }
               ELSE {})

LogOf(base, roles) ==
    { ChatTurn(base + i, roles[i], << Tok("h", i) >>) : i \in 1 .. Len(roles) }

\* ------------------------------------------------------ ai.rs: the agent
VARIABLES
    provider,       \* AiAgent.provider (AI_PROVIDER)
    api_key,        \* TRUE iff OPENAI_API_KEY is set
    max_retries,    \* AI_MAX_RETRIES
    memory_turns,   \* AiAgent.memory_turns (AI_MEMORY_TURNS)
    pc,             \* where the running call is; "idle" between calls
    op,             \* the call in progress or just finished: ask, show, clear
    user_prompt,    \* argument of ask_streaming
    messages,       \* req.messages of the streaming request
    attempts,       \* local `attempts`
    acc,            \* local `acc`
    closed,         \* the EventSource was closed by es.close()
    caller,         \* which call site of ask_once is waiting: connect, stream
    once_messages,  \* req.messages of the request built by ask_once
    out,            \* local `out` of ask_once and of its call sites
    ret,            \* what the finished call returned
    shown           \* what memory_show returned

\* History variables: what happened during the call in progress.
VARIABLES
    memory0,        \* the table when the call started
    nReads,         \* last_turns calls of this call
    nConn,          \* EventSource::new calls of this call
    nFallback,      \* requests sent by ask_once in this call
    nEvents,        \* events es.next() yielded on the current connection
    sent,           \* delta.content of the payloads the connection carried
    skipped,        \* payloads without content it carried after a fragment
    midSkip,        \* a fragment arrived after such a payload
    ended,          \* how the current stream ended: sentinel, close, error
    failLog,        \* the failures of this call, in order
    failedFrags,    \* fragments delivered by connections that then failed
    fbResp,         \* the choices of the fallback response, once received
    appendFailed,   \* some Memory::append of this call failed
    limitArg,       \* argument of memory_show
    inserted,       \* the ids INSERT has ever handed out in this table
    lastWrite,      \* the last statement that changed the table
    nSleeps         \* sleep(backoff) calls of this call

\* Lines 111-114 and 137-138: the backoff.
VARIABLES
    base_backoff_ms,    \* AI_BACKOFF_MS
    backoff             \* local `backoff` while the call sleeps, in ms

\* Agents that run on the same log file at the same time.
VARIABLE agents

storeVars == << memory, sqlite_seq >>
cfgVars   == << provider, api_key, max_retries, memory_turns >>
callVars  == << user_prompt, messages, attempts, acc, closed, caller,
                once_messages, out >>
streamHist == << nEvents, sent, skipped, midSkip, ended >>
histVars  == << memory0, nReads, nConn, nFallback, streamHist, failLog,
                failedFrags, fbResp, appendFailed >>
logHist   == << inserted, lastWrite >>
sleepVars == << base_backoff_ms, backoff, nSleeps >>
vars      == << memory, sqlite_seq, provider, api_key, max_retries,
                memory_turns, pc, op, user_prompt, messages, attempts, acc,
                closed, caller, once_messages, out, ret, shown, memory0,
                nReads, nConn, nFallback, nEvents, sent, skipped, midSkip,
                ended, failLog, failedFrags, fbResp, appendFailed, limitArg,
                inserted, lastWrite, nSleeps, base_backoff_ms, backoff,
                agents >>

\* ------------------------------------------------------- results (Result)
Ok(v)    == [ok |-> TRUE,  val |-> v,         err |-> "none"]
Err(e)   == [ok |-> FALSE, val |-> EmptyText, err |-> e]
NoRet    == [ok |-> FALSE, val |-> EmptyText, err |-> "pending"]

\* Mutant: the result of the call is dropped (`let _ = ...`).
QuestionIgnored(ok, next, cur, e) == [pc |-> next, ret |-> cur]

\* The `?` operator: go on to `next` on Ok, return the error to the caller.
Question(ok, next, cur, e) ==
    IF ok THEN [pc |-> next, ret |-> cur] ELSE [pc |-> "done", ret |-> Err(e)]

\* ---------------------------------------------------------- ai.rs: history
OpenAIMessage(role, content) == [role |-> role, content |-> content]

\* AiAgent::build_history
BuildHistory(rows, turns) ==
    LET history == LastTurns(rows, turns)
    IN  [ i \in 1 .. Len(history) |->
            OpenAIMessage(history[i].role, history[i].content) ]

\* Mutant: the prompt is pushed before the history.
RequestMessagesPromptFirst(rows, turns, prompt) ==
    << OpenAIMessage("user", prompt) >> \o BuildHistory(rows, turns)

\* build_history()? followed by messages.push(user prompt)
RequestMessages(rows, turns, prompt) ==
    Append(BuildHistory(rows, turns), OpenAIMessage("user", prompt))

\* Mutant: the fallback request carries the prompt alone.
OnceMessagesNoHistory(rows, turns, prompt) ==
    << OpenAIMessage("user", prompt) >>

\* ask_once: let mut msgs = self.build_history()?; msgs.push(user prompt)
OnceMessages(rows, turns, prompt) ==
    Append(BuildHistory(rows, turns), OpenAIMessage("user", prompt))

\* Mutant: the credential is looked up only when the request is built.
PrecheckProviderOnly(prov, key) ==
    IF prov # "openai" THEN "provider" ELSE "ok"

\* ask_streaming, before it touches the store: provider and credential.
Precheck(prov, key) ==
    IF prov # "openai" THEN "provider"
    ELSE IF ~key THEN "credential"
    ELSE "ok"

\* ------------------------------------------------- the stream and its data
NoPiece == Tok("-", 0)
Choice(has, piece) == [has |-> has, content |-> piece]

\* msg.data: the sentinel, a JSON chunk or something that does not parse,
\* possibly surrounded by white space.
Data(kind, choices, pad) == [kind |-> kind, choices |-> choices, pad |-> pad]
DoneData == Data("done", << >>, FALSE)

Trim(d) == [d EXCEPT !.pad = FALSE]

\* data == "[DONE]"
IsSentinel(d) == d = DoneData

\* serde_json::from_str::<StreamChunk>(data): Ok for JSON of the schema
\* (white space around it is accepted), Err otherwise.
FromStr(d) ==
    IF d.kind = "json" THEN [ok |-> TRUE, choices |-> d.choices]
    ELSE [ok |-> FALSE, choices |-> << >>]

\* Mutant: the last choice is taken instead of choices.get(0).
AccumulateLastChoice(a, d) ==
    LET payload == FromStr(d)
        n == Len(payload.choices)
    IN  IF payload.ok /\ n >= 1 /\ payload.choices[n].has
        THEN Append(a, payload.choices[n].content)
        ELSE a

\* Lines 167-176: push choices[0].delta.content, if all of it is there.
Accumulate(a, d) ==
    LET payload == FromStr(d)
    IN  IF payload.ok /\ Len(payload.choices) >= 1 /\ payload.choices[1].has
        THEN Append(a, payload.choices[1].content)
        ELSE a

\* What connection number c can deliver in one message.
Payloads(c) ==
    { Data("done", << >>, pad) : pad \in BOOLEAN }
    \cup { Data("json", << Choice(TRUE, Tok(l, c)) >>, FALSE) : l \in Letters }
    \cup { Data("json", << Choice(TRUE, Tok("a", c)) >>, TRUE),
           Data("json", << Choice(FALSE, NoPiece) >>, FALSE),
           Data("json", << >>, FALSE),
           Data("json", << Choice(TRUE, Tok("a", c)),
                           Choice(TRUE, Tok("b", c)) >>, FALSE),
           Data("malformed", << >>, FALSE) }

Event(ev, d, kind) == [ev |-> ev, data |-> d, kind |-> kind]
NoData     == Data("none", << >>, FALSE)
OpenEvent  == Event("open", NoData, "-")
EndOfStream == Event("none", NoData, "-")
Message(d) == Event("message", d, "-")
ErrEvent(kind) == Event("error", NoData, kind)

\* Failures: "rate" renders with 429 / Too Many Requests, "other" does not.
FailKinds == { "rate", "other" }

\* msg.contains("429") || msg.contains("Too Many Requests")
IsRateLimit(kind) == kind = "rate"

\* Mutant: a rate-limit failure is retried whatever the attempt number.
RetryableAlways(kind, att, maxr) == IsRateLimit(kind)

\* Lines 133-134 and 181-182
Retryable(kind, att, maxr) == IsRateLimit(kind) /\ att <= maxr

\* Lines 143 and 193
Exhausted(att, maxr) == att > maxr

Failure(at, kind, att) == [at |-> at, kind |-> kind, attempt |-> att]

\* Mutant: acc.clear() is missing.
NotCleared(a) == a

\* acc.clear()
Cleared(a) == << >>

\* The fallback response: {choices: [{message}]}, or a failed request.
Resp(got, choices) == [got |-> got, choices |-> choices]
NoResp == Resp(FALSE, << >>)
Responses == { << >>, << FallbackText >>, << FallbackText, Text("G") >> }

\* Lines 261-266: the first choice's content, or the default (empty) string.
FirstContent(choices) == IF choices = << >> THEN EmptyText ELSE choices[1]


\* delta.content of a payload as the transport sent it: the fragment of a
\* well-formed chunk that has one, nothing otherwise.
DeltaContent(d) ==
    IF d.kind = "json" /\ d.choices # << >> /\ d.choices[1].has
    THEN << d.choices[1].content >>
    ELSE << >>

Range(s) == { s[i] : i \in 1 .. Len(s) }

\* AI_BACKOFF_MS: no backoff, or the default of line 114.
DefaultBackoffMs == 300
BackoffChoices ==
    { 0, 1, DefaultBackoffMs, Pow2(MsBits - 1), Pow2(MsBits) - 1 }

\* thread_rng().gen_range(0..250)
JitterRange == 250
JitterSamples == { 0, 1, JitterRange - 1 }

\* base_backoff_ms * attempts as u64 + jitter, in u64 arithmetic
Backoff(base, att, jitter) == (base * att + jitter) % Pow2(MsBits)

\* The product or the sum does not fit the u64.
Overflows(base, att, jitter) == base * att + jitter >= Pow2(MsBits)

\* What the arithmetic of lines 137 and 185-187 does: with overflow checks on
\* (a debug build) an overflow panics, otherwise the value wraps.
Panics(base, att, jitter, checks) == checks /\ Overflows(base, att, jitter)

\* No agent besides the one of this run.
NoAgents == << >>

\* ---------------------------------------------------------------- Init
InitCall ==
    /\ \E base \in 0 .. MaxCleared, n \in 0 .. MaxInitTurns :
       \E roles \in RolePatterns(n) :
          /\ memory = LogOf(base, roles)
          /\ sqlite_seq = base + n
    /\ provider \in { "openai", "other" }
    /\ api_key \in BOOLEAN
    /\ max_retries \in 0 .. MaxRetriesCfg
    /\ memory_turns \in 0 .. MaxWindow
    /\ pc = "idle"
    /\ op = "none"
    /\ user_prompt = EmptyText
    /\ messages = << >>
    /\ attempts = 0
    /\ acc = EmptyText
    /\ closed = FALSE
    /\ caller = "none"
    /\ once_messages = << >>
    /\ out = EmptyText
    /\ ret = NoRet
    /\ shown = << >>
    /\ memory0 = memory
    /\ nReads = 0
    /\ nConn = 0
    /\ nFallback = 0
    /\ nEvents = 0
    /\ sent = << >>
    /\ skipped = FALSE
    /\ midSkip = FALSE
    /\ ended = "none"
    /\ failLog = << >>
    /\ failedFrags = {}
    /\ fbResp = NoResp
    /\ appendFailed = FALSE
    /\ limitArg = 0
    /\ inserted = 1 .. sqlite_seq
    /\ lastWrite = IF memory # {} THEN "append"
                   ELSE IF sqlite_seq > 0 THEN "clear" ELSE "none"
    /\ nSleeps = 0
    /\ backoff = 0

\* A command of the program with AI_BACKOFF_MS unset.
Init ==
    /\ InitCall
    /\ base_backoff_ms = DefaultBackoffMs
    /\ agents = NoAgents

\* A prompt on a new log with AI_BACKOFF_MS set.
InitBackoff ==
    /\ InitCall
    /\ base_backoff_ms \in BackoffChoices
    /\ agents = NoAgents
    /\ memory = {}
    /\ sqlite_seq = 0
    /\ provider = "openai"
    /\ api_key
    /\ memory_turns = 0

\* ------------------------------------------------------------- ask_streaming
\* Lines 88-117: the checks, the history read, the request, the counters.
AskStreaming(p) ==
    /\ pc = "idle"
    /\ op' = "ask"
    /\ user_prompt' = p
    /\ attempts' = 0
    /\ acc' = EmptyText
    /\ IF Precheck(provider, api_key) # "ok"
       THEN /\ pc' = "done"
            /\ ret' = Err(Precheck(provider, api_key))
            /\ UNCHANGED << messages, nReads >>
       ELSE \E readOk \in BOOLEAN :
            LET q == Question(readOk, "loop", NoRet, "storage")
            IN  /\ pc' = q.pc
                /\ ret' = q.ret
                /\ nReads' = nReads + 1
                /\ messages' = IF readOk
                               THEN RequestMessages(memory, memory_turns, p)
                               ELSE messages
    /\ UNCHANGED << logHist, sleepVars, agents >>
    /\ UNCHANGED << storeVars, cfgVars, closed, caller, once_messages, out,
                    shown, memory0, nConn, nFallback, streamHist, failLog,
                    failedFrags, fbResp, appendFailed, limitArg >>

\* Where a failure of kind `kind` on attempt `att` leads (lines 133-152 and
\* 181-205): the backoff sleep, the fallback, or the error return.
AfterFailure(kind, att, maxr, sleepPc) ==
    IF Retryable(kind, att, maxr) THEN sleepPc
    ELSE IF Exhausted(att, maxr) THEN "ask_once"
    ELSE "done"

\* Lines 136-140 and 184-189: on the way to the sleep the code draws the jitter
\* and computes the backoff; every other way out of the failure arm computes
\* nothing.
WaitOrLeave(target, sleepPc, att) ==
    IF target # sleepPc
    THEN /\ pc' = target
         /\ UNCHANGED << backoff, nSleeps >>
    ELSE \E jitter \in JitterSamples, checks \in BOOLEAN :
         IF Panics(base_backoff_ms, att, jitter, checks)
         THEN /\ pc' = "panic"
              /\ UNCHANGED << backoff, nSleeps >>
         ELSE /\ pc' = sleepPc
              /\ backoff' = Backoff(base_backoff_ms, att, jitter)
              /\ nSleeps' = nSleeps + 1

\* Lines 119-154: attempts += 1 and EventSource::new.
Connect ==
    /\ pc = "loop"
    /\ attempts' = attempts + 1
    /\ nConn' = nConn + 1
    /\ nEvents' = 0
    /\ sent' = << >>
    /\ skipped' = FALSE
    /\ midSkip' = FALSE
    /\ \E r \in { "ok" } \cup FailKinds :
        IF r = "ok"
        THEN /\ pc' = "stream"
             /\ closed' = FALSE
             /\ ended' = "open"
             /\ UNCHANGED << caller, ret, failLog, backoff, nSleeps >>
        ELSE /\ WaitOrLeave(AfterFailure(r, attempts', max_retries,
                                          "sleep_connect"),
                             "sleep_connect", attempts')
             /\ caller' = IF pc' = "ask_once" THEN "connect" ELSE caller
             /\ ret' = IF pc' = "done" THEN Err("transport") ELSE ret
             /\ failLog' = Append(failLog, Failure("connect", r, attempts'))
             /\ ended' = "none"
             /\ UNCHANGED closed
    /\ UNCHANGED << logHist, base_backoff_ms, agents >>
    /\ UNCHANGED << storeVars, cfgVars, op, user_prompt, messages, acc,
                    once_messages, out, shown, memory0, nReads, nFallback,
                    failedFrags, fbResp, appendFailed, limitArg >>

\* Lines 140-141: sleep(backoff).await; continue  (the enclosing `loop`).
SleepConnect ==
    /\ pc = "sleep_connect"
    /\ pc' = "loop"
    /\ backoff' = 0
    /\ UNCHANGED << logHist, base_backoff_ms, nSleeps, agents >>
    /\ UNCHANGED << storeVars, cfgVars, op, callVars, ret, shown, histVars,
                    limitArg >>

\* Lines 189-191: sleep(backoff).await; acc.clear(); continue.  The innermost
\* enclosing loop is `while let Some(event) = es.next().await`, so the next
\* thing the code does is to poll the EventSource it has just closed.
SleepStream ==
    /\ pc = "sleep_stream"
    /\ acc' = Cleared(acc)
    /\ pc' = "stream"
    /\ backoff' = 0
    /\ UNCHANGED << logHist, base_backoff_ms, nSleeps, agents >>
    /\ UNCHANGED << storeVars, cfgVars, op, user_prompt, messages, attempts,
                    closed, caller, once_messages, out, ret, shown, histVars,
                    limitArg >>

\* Lines 156-208: one es.next().await and the arm that handles it.
\* A closed EventSource yields None.
NextEvent ==
    /\ pc = "stream"
    /\ \E e \in { EndOfStream, OpenEvent }
               \cup { Message(d) : d \in Payloads(nConn) }
               \cup { ErrEvent(k) : k \in FailKinds } :
        /\ closed => e = EndOfStream
        /\ CASE e.ev = "none" ->
                  /\ pc' = "commit_user"
                  /\ ended' = IF closed THEN ended ELSE "close"
                  /\ UNCHANGED << acc, closed, caller, ret, failLog,
                                  failedFrags, nEvents, sent, skipped,
                                  midSkip, backoff, nSleeps >>
             [] e.ev = "open" ->
                  /\ nEvents < MaxEvents
                  /\ nEvents' = nEvents + 1
                  /\ UNCHANGED << pc, acc, closed, caller, ret, failLog,
                                  failedFrags, sent, skipped, midSkip,
                                  ended, backoff, nSleeps >>
             [] e.ev = "message" ->
                  IF IsSentinel(Trim(e.data))
                  THEN /\ closed' = TRUE
                       /\ pc' = "commit_user"
                       /\ ended' = "sentinel"
                       /\ UNCHANGED << acc, caller, ret, failLog,
                                       failedFrags, nEvents, sent, skipped,
                                       midSkip, backoff, nSleeps >>
                  ELSE /\ nEvents < MaxEvents
                       /\ nEvents' = nEvents + 1
                       /\ acc' = Accumulate(acc, Trim(e.data))
                       /\ sent' = sent \o DeltaContent(e.data)
                       /\ skipped' = (skipped \/ (DeltaContent(e.data) = << >>
                                                  /\ sent # << >>))
                       /\ midSkip' = (midSkip \/ (DeltaContent(e.data) # << >>
                                                  /\ skipped))
                       /\ UNCHANGED << pc, closed, caller, ret, failLog,
                                       failedFrags, ended, backoff,
                                       nSleeps >>
             [] e.ev = "error" ->
                  /\ closed' = TRUE
                  /\ WaitOrLeave(AfterFailure(e.kind, attempts, max_retries,
                                               "sleep_stream"),
                                  "sleep_stream", attempts)
                  /\ caller' = IF pc' = "ask_once" THEN "stream" ELSE caller
                  /\ ret' = IF pc' = "done" THEN Err("stream") ELSE ret
                  /\ failLog' = Append(failLog,
                                       Failure("stream", e.kind, attempts))
                  /\ failedFrags' = failedFrags \cup Range(sent)
                  /\ ended' = "error"
                  /\ UNCHANGED << acc, nEvents, sent, skipped, midSkip >>
    /\ UNCHANGED << logHist, base_backoff_ms, agents >>
    /\ UNCHANGED << storeVars, cfgVars, op, user_prompt, messages, attempts,
                    once_messages, out, shown, memory0, nReads, nConn,
                    nFallback, fbResp, appendFailed, limitArg >>

\* ------------------------------------------------------------------ append
\* Memory::append: one INSERT, which the disk may refuse.
MemAppend(ok, role, content) ==
    /\ memory' = IF ok THEN Insert(memory, sqlite_seq, role, content)
                 ELSE memory
    /\ sqlite_seq' = IF ok THEN InsertId(memory, sqlite_seq) ELSE sqlite_seq
    /\ appendFailed' = (appendFailed \/ ~ok)
    /\ inserted' = IF ok THEN inserted \cup { InsertId(memory, sqlite_seq) }
                   ELSE inserted
    /\ lastWrite' = IF ok THEN "append" ELSE lastWrite

\* self.mem.append(role, content)? at program point `at`.
AppendAt(at, role, content, next, cur) ==
    /\ pc = at
    /\ \E ok \in BOOLEAN :
        /\ MemAppend(ok, role, content)
        /\ pc' = Question(ok, next, cur, "storage").pc
        /\ ret' = Question(ok, next, cur, "storage").ret
    /\ UNCHANGED << sleepVars, agents >>
    /\ UNCHANGED << cfgVars, op, callVars, shown, memory0, nReads, nConn,
                    nFallback, streamHist, failLog, failedFrags, fbResp,
                    limitArg >>

\* ---------------------------------------------------------------- ask_once
\* Lines 221-256: credential, history read, request sent.
AskOnceSend ==
    /\ pc = "ask_once"
    /\ IF ~api_key
       THEN /\ pc' = "done"
            /\ ret' = Err("credential")
            /\ UNCHANGED << once_messages, nReads, nFallback >>
       ELSE \E readOk \in BOOLEAN :
            LET q == Question(readOk, "once_wait", ret, "storage")
            IN  /\ pc' = q.pc
                /\ ret' = q.ret
                /\ nReads' = nReads + 1
                /\ nFallback' = IF readOk THEN nFallback + 1 ELSE nFallback
                /\ once_messages' =
                       IF readOk
                       THEN OnceMessages(memory, memory_turns, user_prompt)
                       ELSE once_messages
    /\ UNCHANGED << logHist, sleepVars, agents >>
    /\ UNCHANGED << storeVars, cfgVars, op, user_prompt, messages, attempts,
                    acc, closed, caller, out, shown, memory0, nConn,
                    streamHist, failLog, failedFrags, fbResp, appendFailed,
                    limitArg >>

\* Lines 256-266: .send().await?.json().await? and the first choice.
AskOnceRecv ==
    /\ pc = "once_wait"
    /\ \/ /\ pc' = "done"
          /\ ret' = Err("fallback")
          /\ UNCHANGED << out, fbResp >>
       \/ \E choices \in Responses :
          /\ fbResp' = Resp(TRUE, choices)
          /\ out' = FirstContent(choices)
          /\ pc' = "once_user"
          /\ UNCHANGED ret
    /\ UNCHANGED << logHist, sleepVars, agents >>
    /\ UNCHANGED << storeVars, cfgVars, op, user_prompt, messages, attempts,
                    acc, closed, caller, once_messages, shown, memory0,
                    nReads, nConn, nFallback, streamHist, failLog,
                    failedFrags, appendFailed, limitArg >>

\* Line 268
OnceAppendUser == AppendAt("once_user", "user", user_prompt, "once_asst", ret)

\* Lines 269-270, and the return into the call site: line 148-150 returns
\* Ok(out), line 198 goes on to lines 200-203.
OnceAppendAsst ==
    IF caller = "connect"
    THEN AppendAt("once_asst", "assistant", out, "done", Ok(out))
    ELSE AppendAt("once_asst", "assistant", out, "fb_user", ret)

\* Line 200
FallbackAppendUser == AppendAt("fb_user", "user", user_prompt, "fb_asst", ret)

\* Lines 201-203
FallbackAppendAsst == AppendAt("fb_asst", "assistant", out, "done", Ok(out))

\* Line 214
CommitUser == AppendAt("commit_user", "user", user_prompt, "commit_asst", ret)

\* Lines 215-217
CommitAsst == AppendAt("commit_asst", "assistant", acc, "done", Ok(acc))

\* ------------------------------------------------- memory_show, memory_clear
\* AiAgent::memory_show (main.rs: MemoryShow)
MemoryShow(limit) ==
    /\ pc = "idle"
    /\ op' = "show"
    /\ limitArg' = limit
    /\ pc' = "done"
    /\ \E readOk \in BOOLEAN :
        /\ ret' = IF readOk THEN Ok(EmptyText) ELSE Err("storage")
        /\ shown' = IF readOk THEN LastTurns(memory, limit) ELSE << >>
    /\ UNCHANGED << logHist, sleepVars, agents >>
    /\ UNCHANGED << storeVars, cfgVars, callVars, histVars >>

\* Mutant: the DELETE spares the newest row.
DeleteOlder(rows) == { r \in rows : r.id = MaxRowId(rows) }

\* DELETE FROM memory
Delete(rows) == {}

\* AiAgent::memory_clear / Memory::clear (main.rs: MemoryClear)
MemoryClear ==
    /\ pc = "idle"
    /\ op' = "clear"
    /\ pc' = "done"
    /\ \E ok \in BOOLEAN :
        /\ ret' = IF ok THEN Ok(EmptyText) ELSE Err("storage")
        /\ memory' = IF ok THEN Delete(memory) ELSE memory
        /\ lastWrite' = IF ok THEN "clear" ELSE lastWrite
    /\ UNCHANGED << inserted, sleepVars, agents >>
    /\ UNCHANGED << sqlite_seq, cfgVars, callVars, shown, histVars, limitArg >>

Next ==
    \/ \E p \in Prompts : AskStreaming(p)
    \/ Connect
    \/ SleepConnect
    \/ SleepStream
    \/ NextEvent
    \/ AskOnceSend
    \/ AskOnceRecv
    \/ OnceAppendUser
    \/ OnceAppendAsst
    \/ FallbackAppendUser
    \/ FallbackAppendAsst
    \/ CommitUser
    \/ CommitAsst
    \/ \E limit \in UsizeValues : MemoryShow(limit)
    \/ MemoryClear

Spec == Init /\ [][Next]_vars

\* ------------------------------------------------- the log on its own
\* Any sequence of Memory::append, Memory::last_turns and Memory::clear on a
\* table that Memory::open has just created.
LogRoles == { "user", "assistant" }
LogTexts == { Text("x") }

InitLog ==
    /\ Init
    /\ memory = {}
    /\ sqlite_seq = 0
    /\ provider = "openai"
    /\ api_key
    /\ max_retries = 0
    /\ memory_turns = 0

\* Memory::append
LogAppend(role, content) ==
    /\ sqlite_seq < MaxAppends
    /\ op' = "append"
    /\ \E ok \in BOOLEAN :
        /\ MemAppend(ok, role, content)
        /\ ret' = IF ok THEN Ok(EmptyText) ELSE Err("storage")
    /\ UNCHANGED << cfgVars, pc, callVars, shown, memory0, nReads, nConn,
                    nFallback, streamHist, failLog, failedFrags, fbResp,
                    limitArg, sleepVars, agents >>

\* Memory::last_turns
LogLastTurns(limit) ==
    /\ op' = "show"
    /\ limitArg' = limit
    /\ \E readOk \in BOOLEAN :
        /\ ret' = IF readOk THEN Ok(EmptyText) ELSE Err("storage")
        /\ shown' = IF readOk THEN LastTurns(memory, limit) ELSE << >>
    /\ UNCHANGED << storeVars, cfgVars, pc, callVars, histVars, logHist,
                    sleepVars, agents >>

\* Memory::clear
LogClear ==
    /\ op' = "clear"
    /\ \E ok \in BOOLEAN :
        /\ ret' = IF ok THEN Ok(EmptyText) ELSE Err("storage")
        /\ memory' = IF ok THEN Delete(memory) ELSE memory
        /\ lastWrite' = IF ok THEN "clear" ELSE lastWrite
    /\ UNCHANGED << sqlite_seq, cfgVars, pc, callVars, shown, histVars,
                    limitArg, inserted, sleepVars, agents >>

NextLog ==
    \/ \E role \in LogRoles, content \in LogTexts : LogAppend(role, content)
    \/ \E limit \in UsizeValues : LogLastTurns(limit)
    \/ LogClear

SpecLog == InitLog /\ [][NextLog]_vars

SpecBackoff == InitBackoff /\ [][Next]_vars

\* ------------------------------------------------- two agents, one log
\* NumAgents agents (processes, or futures of one process) opened on the same
\* database file, each at the end of a stream that succeeded.  SQLite makes
\* each INSERT atomic; nothing groups the two INSERTs of lines 214-215.
Agents == 1 .. NumAgents
Streamed == { Text("s"), Text("t") }

Agent(at, prompt, text, user_id, asst_id) ==
    [pc |-> at, user_prompt |-> prompt, acc |-> text,
     user_id |-> user_id, asst_id |-> asst_id]

InitOverlap ==
    /\ InitCall
    /\ base_backoff_ms = DefaultBackoffMs
    /\ provider = "openai"
    /\ api_key
    /\ max_retries = 0
    /\ memory_turns = 0
    /\ agents = [a \in Agents |-> Agent("idle", EmptyText, EmptyText, 0, 0)]

overlapFrame == << cfgVars, pc, op, callVars, ret, shown, memory0, nReads,
                   nConn, nFallback, streamHist, failLog, failedFrags, fbResp,
                   limitArg, sleepVars >>

\* Lines 88-212 of agent a, the stream having ended cleanly with `text`.
OverlapStream(a, p, text) ==
    /\ agents[a].pc = "idle"
    /\ agents' = [agents EXCEPT ![a] = Agent("commit_user", p, text, 0, 0)]
    /\ UNCHANGED << storeVars, appendFailed, logHist, overlapFrame >>

\* Line 214 of agent a
OverlapCommitUser(a) ==
    /\ agents[a].pc = "commit_user"
    /\ \E ok \in BOOLEAN :
        /\ MemAppend(ok, "user", agents[a].user_prompt)
        /\ agents' = [agents EXCEPT ![a] =
                IF ok
                THEN Agent("commit_asst", @.user_prompt, @.acc,
                           InsertId(memory, sqlite_seq), 0)
                ELSE Agent("done", @.user_prompt, @.acc, 0, 0)]
    /\ UNCHANGED overlapFrame

\* Line 215 of agent a
OverlapCommitAsst(a) ==
    /\ agents[a].pc = "commit_asst"
    /\ \E ok \in BOOLEAN :
        /\ MemAppend(ok, "assistant", agents[a].acc)
        /\ agents' = [agents EXCEPT ![a] =
                IF ok
                THEN Agent("done", @.user_prompt, @.acc, @.user_id,
                           InsertId(memory, sqlite_seq))
                ELSE Agent("done", @.user_prompt, @.acc, @.user_id, 0)]
    /\ UNCHANGED overlapFrame

NextOverlap ==
    \E a \in Agents :
        \/ \E p \in Prompts, text \in Streamed : OverlapStream(a, p, text)
        \/ OverlapCommitUser(a)
        \/ OverlapCommitAsst(a)

SpecOverlap == InitOverlap /\ [][NextOverlap]_vars

\* A command on a new log.  No guard of ask_streaming reads the content of
\* the log, so the log does not bear on which steps follow which.
InitNewLog ==
    /\ Init
    /\ memory = {}
    /\ sqlite_seq = 0
    /\ memory_turns = 0

\* The caller polls the future until it returns, every stream is finite and
\* every network call returns: a step that can be taken is taken.
SpecFair == InitNewLog /\ [][Next]_vars /\ WF_vars(Next)

\* ===================================================================
\* Properties
\* ===================================================================
Returned == pc = "done" /\ op = "ask"

\* The rows the call has added, oldest first.
RECURSIVE AscById(_)
AscById(rows) ==
    IF rows = {} THEN << >>
    ELSE LET lo == CHOOSE r \in rows : \A x \in rows : r.id <= x.id
         IN  << lo >> \o AscById(rows \ { lo })

NewTurns == AscById(memory \ memory0)

\* The new rows are exactly (user, prompt), (assistant, text), after every
\* row that was there, with nothing between them.
CommittedPair(text) ==
    /\ memory0 \subseteq memory
    /\ Len(NewTurns) = 2
    /\ NewTurns[1].role = "user" /\ NewTurns[1].content = user_prompt
    /\ NewTurns[2].role = "assistant" /\ NewTurns[2].content = text
    /\ NewTurns[2].id = NewTurns[1].id + 1
    /\ \A r \in memory0 : r.id < NewTurns[1].id

\* The content of the newest assistant turn the call has added.
LastAssistantIs(text) ==
    /\ NewTurns # << >>
    /\ NewTurns[Len(NewTurns)].role = "assistant"
    /\ NewTurns[Len(NewTurns)].content = text

AllRateLimit == \A i \in 1 .. Len(failLog) : failLog[i].kind = "rate"
StreamEndedClean == ended \in { "sentinel", "close" }

\* C1: every call of ask_streaming that returns Ok has added exactly two
\* turns to the log, (user, prompt) immediately followed by (assistant,
\* result): the commit happens exactly once.
C1_ExactlyOnePair ==
    (Returned /\ ret.ok) => CommittedPair(ret.val)

\* C2: when the transport fails k < max_retries times, each time with a
\* rate-limit signal (at connection time or mid-stream), and is otherwise
\* clean, the call succeeds by streaming without fallback, has opened k + 1
\* connections, and the committed assistant text is what the last connection
\* streamed.
C2_RetriesThenStreams ==
    (Returned /\ nConn >= 1 /\ ~appendFailed /\ AllRateLimit
              /\ Len(failLog) < max_retries)
    => /\ ret.ok
       /\ nFallback = 0
       /\ nConn = Len(failLog) + 1
       /\ StreamEndedClean
       /\ ret.val = sent
       /\ LastAssistantIs(sent)

\* C3: when every streaming attempt fails with a rate-limit signal (and the
\* fallback request and the appends succeed), the call has made
\* max_retries + 1 streaming attempts and one fallback request, and the
\* committed assistant text is the content of the fallback response.
C3_ExhaustedThenFallback ==
    (Returned /\ nConn >= 1 /\ Len(failLog) = nConn /\ AllRateLimit
              /\ ~appendFailed /\ ret.err \notin { "storage", "fallback" })
    => /\ nConn = max_retries + 1
       /\ nFallback = 1
       /\ ret.ok
       /\ fbResp.got
       /\ LastAssistantIs(IF fbResp.choices = << >> THEN EmptyText
                          ELSE fbResp.choices[1])

\* C4: a failure that is not a rate-limit signal, on any attempt, ends the
\* call at once with an error: no further attempt, no fallback, the log as
\* it was.
C4_OtherFailureIsFatal ==
    \A i \in 1 .. Len(failLog) :
        failLog[i].kind = "other"
        => /\ pc = "done"
           /\ ~ret.ok
           /\ nConn = failLog[i].attempt
           /\ nFallback = 0
           /\ memory = memory0

\* C5: the accumulator is empty whenever a streaming attempt opens its
\* connection, and the text an Ok call returns and commits holds no fragment
\* of a connection that ended in a failure.
C5_NoCrossAttemptLeak ==
    /\ pc = "loop" => acc = EmptyText
    /\ (pc = "stream" /\ ended = "open" /\ nEvents = 0) => acc = EmptyText
    /\ (Returned /\ ret.ok)
       => /\ Range(ret.val) \cap failedFrags = {}
          /\ \A i \in 1 .. Len(NewTurns) :
                Range(NewTurns[i].content) \cap failedFrags = {}

C5_Witness ==
    /\ Returned /\ ret.ok
    /\ failedFrags # {}
    /\ Len(failLog) >= 2

\* C6: while a stream is open, and once it has ended with the sentinel or a
\* clean close, the accumulator is the concatenation, in arrival order, of
\* delta.content of the well-formed payloads received; payloads without
\* content add nothing and do not end the stream or the call.
C6_AccumulatesContent ==
    /\ (ended = "open" \/ StreamEndedClean) => acc = sent
    /\ (Returned /\ StreamEndedClean /\ ~appendFailed) => ret = Ok(sent)

C6_Witness ==
    /\ Returned /\ ret.ok
    /\ ended = "sentinel"
    /\ midSkip
    /\ Len(sent) = 2

\* C7: the log is read before the first request goes out; the log differs
\* from what it was at the start of the call only once a network result is
\* fully known (a stream that ended cleanly, or the fallback response); a
\* call that ends in a network error leaves the log as it was.
C7_ReadFirstCommitLast ==
    /\ (nConn > 0 \/ nFallback > 0) => nReads >= 1
    /\ (op = "ask" /\ memory # memory0) => (StreamEndedClean \/ fbResp.got)
    /\ (Returned /\ ret.err \in { "transport", "stream", "fallback" })
       => memory = memory0

\* C8: a call in which an append failed returns an error; a call that
\* returns Ok has left the pair (user, prompt), (assistant, result) as the
\* newest two turns of the log.
C8_StorageFailureReported ==
    /\ (Returned /\ appendFailed) => (~ret.ok /\ ret.err = "storage")
    /\ (Returned /\ ret.ok)
       => /\ Len(NewTurns) >= 2
          /\ NewTurns[Len(NewTurns) - 1].role = "user"
          /\ NewTurns[Len(NewTurns) - 1].content = user_prompt
          /\ LastAssistantIs(ret.val)

C8_Witness ==
    /\ Returned /\ appendFailed
    /\ memory # memory0
    /\ (StreamEndedClean \/ fbResp.got)

\* C9: with an unsupported provider or no credential, ask_streaming returns
\* an error having read nothing from the log, opened no connection, sent no
\* fallback request and appended nothing.
C9_ConfigErrorsFirst ==
    (op = "ask" /\ (provider # "openai" \/ ~api_key))
    => /\ pc = "done"
       /\ ~ret.ok
       /\ ret.err \in { "provider", "credential" }
       /\ nReads = 0 /\ nConn = 0 /\ nFallback = 0
       /\ memory = memory0

C9_Witness ==
    /\ Returned
    /\ provider = "openai" /\ ~api_key
    /\ memory # {}

\* C10: last_turns(n) returns min(n, count) turns, the most recent ones, in
\* strictly increasing id order; none for n = 0, all of them for n >= count.
C10_LastTurns ==
    (pc = "done" /\ op = "show" /\ ret.ok)
    => /\ Len(shown) = Min(limitArg, Cardinality(memory))
       /\ \A i, j \in 1 .. Len(shown) : i < j => shown[i].id < shown[j].id
       /\ Range(shown) \subseteq memory
       /\ \A r \in memory \ Range(shown) :
             \A t \in Range(shown) : r.id < t.id
       /\ limitArg = 0 => shown = << >>
       /\ limitArg >= Cardinality(memory) => Range(shown) = memory

C10_Witness ==
    /\ pc = "done" /\ op = "show" /\ ret.ok
    /\ limitArg = 1
    /\ Cardinality(memory) = 2
    /\ sqlite_seq > 2

\* C11: after any sequence of appends and clears, an append that succeeds
\* adds one turn whose id no INSERT has handed out before and is greater than
\* every id handed out before (cleared turns included), and last_turns(n)
\* reports it as its last entry for every n >= 1.
C11_AppendIsNewest ==
    [][ \A r \in memory' \ memory :
          /\ memory' \ memory = { r }
          /\ r.id \notin inserted
          /\ \A i \in inserted : i < r.id
          /\ \A n \in UsizeValues \ { 0 } :
                LET v == LastTurns(memory', n)
                IN  v # << >> /\ v[Len(v)] = r ]_vars

C11_Witness ==
    /\ op = "append" /\ ret.ok
    /\ Cardinality(memory) = 1
    /\ sqlite_seq = 3
    /\ lastWrite = "append"

\* C12: from a clear that succeeded until the next append, last_turns(n) is
\* empty for every n, whatever the table held.
C12_EmptyAfterClear ==
    lastWrite = "clear"
    => /\ \A n \in UsizeValues : LastTurns(memory, n) = << >>
       /\ (op = "show" /\ ret.ok) => shown = << >>

C12_Witness ==
    /\ lastWrite = "clear"
    /\ op = "show" /\ ret.ok
    /\ limitArg >= 2
    /\ sqlite_seq >= 2

\* C13: the message list of the request is the (role, content) of the last
\* min(N, count) turns of the log in chronological order followed by one
\* message (user, prompt); it has min(N, count) + 1 entries, and the log is as
\* it was when the list has been built.
C13_Window ==
    LET all == AscById(memory0)
        k   == Min(memory_turns, Len(all))
    IN  SubSeq(all, Len(all) - k + 1, Len(all))

C13_MessagesAreWindowPlusPrompt ==
    /\ pc \in { "loop", "stream", "sleep_connect", "sleep_stream" }
       => messages # << >>
    /\ messages # << >>
       => /\ Len(messages) = Len(C13_Window) + 1
          /\ \A i \in 1 .. Len(C13_Window) :
                /\ messages[i].role = C13_Window[i].role
                /\ messages[i].content = C13_Window[i].content
          /\ messages[Len(messages)] = [role |-> "user", content |-> user_prompt]
    /\ (pc = "loop" /\ nConn = 0) => memory = memory0

C13_Witness ==
    /\ pc = "loop" /\ nConn = 0
    /\ memory_turns = 1
    /\ Cardinality(memory0) = 2
    /\ Len(messages) = 2

\* C14: ask_streaming reaches the commit of the accumulator (lines 214-217)
\* only when the stream of the last connection ended with the [DONE] sentinel
\* or a clean close and delivered no error event, and then no fallback call
\* has been made.
C14_CommitOnlyAfterCleanStream ==
    pc \in { "commit_user", "commit_asst" }
    => /\ StreamEndedClean
       /\ \A i \in 1 .. Len(failLog) :
             ~(failLog[i].at = "stream" /\ failLog[i].attempt = attempts)
       /\ nFallback = 0

\* C15: every exchange returns, and in doing so it opens at most
\* max_retries + 1 streaming connections, makes at most one fallback call and
\* never counts more than max_retries + 1 attempts.
C15_Terminates ==
    /\ [](/\ nConn <= max_retries + 1
          /\ attempts <= max_retries + 1
          /\ nFallback <= 1)
    /\ (op = "ask") ~> (pc = "done")

C15_Witness ==
    /\ Returned
    /\ max_retries = MaxRetriesCfg
    /\ nConn = max_retries + 1
    /\ nFallback = 1

\* C16: no step of an exchange and no last_turns call changes or removes a
\* turn: unless the step is a clear, every turn of the log is still in it with
\* the same id, role and content, and every turn the step adds has an id
\* greater than all of them, so that the old log is a prefix of the new one.
C16_AppendOnly ==
    [][ op' # "clear"
        => /\ memory \subseteq memory'
           /\ \A r \in memory' \ memory : \A x \in memory : x.id < r.id
           /\ SubSeq(AscById(memory'), 1, Cardinality(memory))
                 = AscById(memory) ]_vars

C16_Witness ==
    /\ Returned
    /\ Cardinality(memory0) = 2
    /\ memory0 \subseteq memory
    /\ Cardinality(memory) = 6
    /\ failLog # << >>

\* C17: when an exchange has returned, with Ok or with an error, the log has
\* gained nothing or one (user, assistant) pair; its last new turn is never a
\* user turn.
C17_ZeroOrOnePair ==
    Returned
    => \/ NewTurns = << >>
       \/ /\ Len(NewTurns) = 2
          /\ NewTurns[1].role = "user"
          /\ NewTurns[1].content = user_prompt
          /\ NewTurns[2].role = "assistant"

\* C18: the wait that follows failed attempt a (a = 1 .. max_retries, the
\* failure a rate limit, at connection time or mid-stream) lasts
\* base_backoff * a + jitter milliseconds with 0 <= jitter < 250; the call
\* has waited once for each such failure and at no other time: not before
\* the first attempt, the fallback call or the return of an error.
C18_RetryableInBudget ==
    { i \in 1 .. Len(failLog) :
        failLog[i].kind = "rate" /\ failLog[i].attempt <= max_retries }

C18_BackoffWait ==
    /\ pc # "panic"
    /\ pc \in { "sleep_connect", "sleep_stream" }
       => /\ attempts \in 1 .. max_retries
          /\ backoff - base_backoff_ms * attempts \in 0 .. (JitterRange - 1)
          /\ (base_backoff_ms > 0 /\ attempts > 1)
             => backoff > base_backoff_ms * (attempts - 1)
    /\ pc \notin { "sleep_connect", "sleep_stream" } => backoff = 0
    /\ nSleeps = Cardinality(C18_RetryableInBudget)

\* C19: the request of the fallback call carries the message list of the
\* streaming requests of the same exchange, and the log read by ask_once is
\* the log read at the start of the exchange.
C19_FallbackSameMessages ==
    /\ nFallback >= 1 => once_messages = messages
    /\ pc \in { "ask_once", "once_wait" } => memory = memory0

C19_Witness ==
    /\ pc = "once_wait"
    /\ nFallback = 1
    /\ Len(once_messages) = 3
    /\ nConn >= 2

\* C20: when exchanges overlap on one log, the two turns an exchange has
\* committed are adjacent in id order: no other turn lies between its user
\* turn and its assistant turn.
C20_PairsAdjacent ==
    \A a \in DOMAIN agents :
        (agents[a].user_id > 0 /\ agents[a].asst_id > 0)
        => ~ \E r \in memory :
                agents[a].user_id < r.id /\ r.id < agents[a].asst_id

====
